---- MODULE Spec2Model ----
(***************************************************************************)
(* Model of ngrok/src/tunnel_ext.rs: TunnelExt::forward, connect, on_err,  *)
(* tls_config, join_streams and serve_gateway_error.                       *)
(*                                                                         *)
(* Option<T> values are modelled as sets with at most one element:         *)
(* {} is None and {x} is Some(x).  Strings that the code concatenates or   *)
(* strips are sequences of tokens, "/" being a token of its own.           *)
(***************************************************************************)
EXTENDS Integers, Sequences, FiniteSets, TLC

VARIABLES
    windows,    \* cfg(target_os = "windows") of the build
    hyper,      \* cfg(feature = "hyper") of the build
    url,        \* the `url: Url` argument of forward
    proto,      \* Tunnel::proto() of the tunnel being forwarded
    pc,         \* where the forward future is suspended
    result,     \* what forward returned, "none" while it runs
    source,     \* inbound connections the tunnel source has yet to yield
    lastNext,   \* outcome of the latest completed try_next().await
    accepted,   \* number of inbound connections retrieved so far
    conns,      \* per inbound connection: its progress and what was done to it
    pipe,       \* the named pipe loop of the dial in progress or last finished
    tls,        \* the process-wide Lazy CONFIG of tls_config and its load count
    callers,    \* concurrent https/tls dials of the process inside tls_config()
    xfer        \* copy_bidirectional of the relay of connection 1, step by step

vars == <<windows, hyper, url, proto, pc, result, source, lastNext, accepted, conns, pipe, tls,
          callers, xfer>>

(***************************************************************************)
(* Bounds of the model.                                                    *)
(***************************************************************************)
MaxConns == 3   \* inbound connections the tunnel source may yield
MaxBusy == 2    \* ERROR_PIPE_BUSY results one pipe dial may see
MaxCallers == 3 \* concurrent dials calling tls_config()
MaxCalls == 2   \* tls_config() calls each of them makes
MaxBytes == 2   \* bytes each peer of a relayed connection sends

ConnIds == 1..MaxConns

CallerIds == 1..MaxCallers

(***************************************************************************)
(* Option helpers.                                                         *)
(***************************************************************************)
None == {}

Some(x) == {x}

unwrap(o) == CHOOSE x \in o : TRUE

unwrap_or(o, d) == IF o = None THEN d ELSE unwrap(o)

(***************************************************************************)
(* The Url values forward can be given.  A Url is what the url crate       *)
(* exposes to connect: scheme(), host_str(), port(), path().               *)
(*   unix://h/p    -> host Some("h"), path /p                              *)
(*   unix:r/p      -> host None,      path r/p                             *)
(*   unix:///a/p   -> host None,      path /a/p                            *)
(*   unix:/a/p     -> host None,      path /a/p                            *)
(*   pipe:name     -> host None,      path name                            *)
(*   pipe://h/name -> host Some("h"), path /name                           *)
(*   pipe:///name  -> host None,      path /name                           *)
(* A Url with a host has a path that is empty or starts with "/".          *)
(***************************************************************************)
Hosts == {None, Some("localhost"), Some("h"), Some("a*b")}

Ports == {None, Some(80), Some(8080)}

Paths == {<<>>, <<"/">>, <<"/", "p">>, <<"p">>}

MkUrl(s, h, p, pa) == [scheme |-> s, host |-> h, port |-> p, path |-> pa]

TcpUrls == {MkUrl(s, h, p, <<"/">>) : s \in {"tcp", "http", "https", "tls", "ftp"},
                                       h \in Hosts \ {None}, p \in Ports}

PathUrls == {u \in {MkUrl(s, h, None, pa) : s \in {"unix", "pipe"}, h \in Hosts \ {Some("a*b")},
                                             pa \in Paths} :
                u.host # None => (u.path = <<>> \/ Head(u.path) = "/")}

Urls == TcpUrls \cup PathUrls

(***************************************************************************)
(* One Url per way a dial can go: tcp://h:8080, tcp://h, https://h,        *)
(* tls://a*b, unix:/p, pipe:p, ftp://h.                                    *)
(***************************************************************************)
ForwardUrls ==
    {MkUrl("tcp", Some("h"), Some(8080), <<"/">>),
     MkUrl("tcp", Some("h"), None, <<"/">>),
     MkUrl("https", Some("h"), None, <<"/">>),
     MkUrl("tls", Some("a*b"), None, <<"/">>),
     MkUrl("unix", None, None, <<"/", "p">>),
     MkUrl("pipe", None, None, <<"p">>),
     MkUrl("ftp", Some("h"), None, <<"/">>)}

Protos == {"http", "https", "tcp"}

(***************************************************************************)
(* io::Error values.  `names` is the set of Urls the message formats in.   *)
(***************************************************************************)
NoErr == [kind |-> "none", text |-> "", names |-> {}]

IoErr(kind, text) == [kind |-> kind, text |-> text, names |-> {}]

InvalidUrl(text, u) == [kind |-> "InvalidInput", text |-> text, names |-> {u}]

(***************************************************************************)
(* connect: let host = url.host_str().unwrap_or("localhost")               *)
(***************************************************************************)
connect_host(u) == unwrap_or(u.host, "localhost")

(***************************************************************************)
(* connect: the arm of `match url.scheme()` taken on this build.  "unix"   *)
(* exists only off Windows and "pipe" only on Windows; `_` is the rest.    *)
(***************************************************************************)
connect_arm_any_build(u, win) ==
    CASE u.scheme = "tcp" -> "tcp"
      [] u.scheme = "http" -> "http"
      [] u.scheme \in {"https", "tls"} -> "tls"
      [] u.scheme = "unix" -> "unix"
      [] u.scheme = "pipe" -> "pipe"
      [] OTHER -> "unrecognized"

connect_arm(u, win) ==
    CASE u.scheme = "tcp" -> "tcp"
      [] u.scheme = "http" -> "http"
      [] u.scheme \in {"https", "tls"} -> "tls"
      [] u.scheme = "unix" /\ ~win -> "unix"
      [] u.scheme = "pipe" /\ win -> "pipe"
      [] OTHER -> "unrecognized"

(***************************************************************************)
(* connect: the port of the tcp, http and https/tls arms.  None is the     *)
(* `ok_or_else(..)?` of the tcp arm failing.                               *)
(***************************************************************************)
connect_port_default_8080(u) ==
    CASE u.scheme = "tcp" -> u.port
      [] u.scheme = "http" -> Some(unwrap_or(u.port, 8080))
      [] OTHER -> Some(unwrap_or(u.port, 443))

connect_port(u) ==
    CASE u.scheme = "tcp" -> u.port
      [] u.scheme = "http" -> Some(unwrap_or(u.port, 80))
      [] OTHER -> Some(unwrap_or(u.port, 443))

(***************************************************************************)
(* connect, "unix" arm: addr = path, or format!("{host}{addr}").           *)
(***************************************************************************)
unix_addr_path_only(u) == u.path

unix_addr(u) == IF u.host # None THEN <<unwrap(u.host)>> \o u.path ELSE u.path

(***************************************************************************)
(* connect, "pipe" arm.  strip_prefix('/').unwrap_or(pipe_name)            *)
(***************************************************************************)
strip_prefix_slash(s) == IF s # <<>> /\ Head(s) = "/" THEN Tail(s) ELSE s

pipe_name_always_strip(u) == strip_prefix_slash(u.path)

pipe_name(u) == IF u.host # None THEN strip_prefix_slash(u.path) ELSE u.path

pipe_host(u) ==
    IF u.host = None THEN "."
    ELSE IF unwrap(u.host) = "localhost" THEN "." ELSE unwrap(u.host)

pipe_addr(u) == <<"\\\\", pipe_host(u), "\\pipe\\">> \o pipe_name(u)

(***************************************************************************)
(* rustls::ServerName::try_from(host): a DNS name or an IP address.        *)
(***************************************************************************)
ValidServerNames == {"localhost", "h"}

server_name_ok(host) == host \in ValidServerNames

(***************************************************************************)
(* on_err: what happens to the inbound connection after a failed dial.     *)
(* The "http" | "https" arm exists only with the hyper feature.            *)
(***************************************************************************)
on_err_any_proto(p, hy) == IF hy THEN "responder" ELSE "drop"

on_err(p, hy) == IF hy /\ p \in {"http", "https"} THEN "responder" ELSE "drop"

(***************************************************************************)
(* forward: the two arms of `match connect(..).await`.  Err runs on_err    *)
(* and `continue`s; Ok calls join_streams, whose JoinHandle is dropped,    *)
(* and falls through to the top of the loop.                               *)
(***************************************************************************)
dial_err_arm_propagate == [pc |-> "returned", result |-> "DialError"]

dial_err_arm_break == [pc |-> "returned", result |-> "Ok"]

dial_err_arm_redial == [pc |-> "connect", result |-> "none"]

dial_err_arm == [pc |-> "next", result |-> "none"]

dial_ok_arm_await_join == [pc |-> "join_await", result |-> "none"]

dial_ok_arm == [pc |-> "next", result |-> "none"]

(***************************************************************************)
(* connect, "pipe" arm: where the dial goes after ERROR_PIPE_BUSY.         *)
(***************************************************************************)
pipe_busy_arm_no_sleep == "pipe_open"

pipe_busy_arm == "pipe_sleep"

(***************************************************************************)
(* serve_gateway_error: the service_fn response and http1_keep_alive.      *)
(***************************************************************************)
BAD_GATEWAY == 502

gateway_response(err) ==
    [version |-> "HTTP/1.1", status |-> BAD_GATEWAY, body |-> <<"failed to dial backend: ", err>>]

http1_keep_alive == FALSE

(***************************************************************************)
(* State of one inbound connection.                                        *)
(***************************************************************************)
NoTarget == [kind |-> "none"]

NoConn ==
    [state |-> "None",      \* None, Accepted, Dialing, Relaying, Degraded, Closed
     dial |-> "none",       \* none, pending, ok, err: the result of connect
     resolved |-> 0,        \* calls of connect, each resolving the Url once
     dials |-> 0,           \* of which went on to open an outbound connection
     err |-> NoErr,         \* the error connect returned
     target |-> NoTarget,   \* the outbound address connect dialed
     tcp |-> "none",        \* the outbound TcpStream: none, open, closed
     handshake |-> FALSE,   \* TlsConnector::connect was called
     task |-> "none",       \* the spawned task: none, relay, responder
     relay |-> "none",      \* none, running, ok, err: copy_bidirectional
     responses |-> <<>>]    \* responses written on the inbound connection

cur == accepted

NoCaller ==
    [pc |-> "idle",         \* idle, loading (runs the Lazy closure), blocked (waits for it)
     calls |-> 0,           \* tls_config() calls that returned
     seen |-> {}]           \* the outcomes they returned: "ok", "err"

(***************************************************************************)
(* copy_bidirectional(&mut left, &mut right): left is the tunnel stream,   *)
(* right the local one; a2b copies left to right and b2a right to left.    *)
(***************************************************************************)
Dirs == {"a2b", "b2a"}

Sides == {"left", "right"}

src(d) == IF d = "a2b" THEN "left" ELSE "right"

dst(d) == IF d = "a2b" THEN "right" ELSE "left"

Payload(n, base) == [i \in 1..n |-> base + i]

NoDir ==
    [state |-> "Running",   \* TransferState: Running, ShuttingDown, Done
     buf |-> <<>>,          \* CopyBuffer: bytes read and not yet written
     read_done |-> FALSE,   \* CopyBuffer: the reader returned 0 bytes
     amt |-> 0]             \* CopyBuffer: bytes written so far

Stream(data) ==
    [sent |-> data,         \* everything the peer sends on this stream
     incoming |-> data,     \* what of it the relay has not read yet
     fin |-> FALSE,         \* the peer has closed its sending side
     written |-> <<>>,      \* bytes the relay wrote to this stream
     shutdown |-> FALSE,    \* the relay shut its write half down
     open |-> TRUE]         \* the relay has not dropped it

NoXfer ==
    [active |-> FALSE,
     dir |-> [d \in Dirs |-> NoDir],
     stream |-> [sd \in Sides |-> Stream(<<>>)],
     result |-> [kind |-> "none"]]

NoPipe ==
    [opens |-> 0,           \* ClientOptions::open calls
     busy |-> 0,            \* of which returned ERROR_PIPE_BUSY
     sleeps |-> 0]          \* completed time::sleep(50ms)

(***************************************************************************)
(* Init: forward has been called and is about to poll try_next.            *)
(***************************************************************************)
InitWith(us, n) ==
    /\ windows \in BOOLEAN
    /\ hyper \in BOOLEAN
    /\ url \in us
    /\ proto \in Protos
    /\ source = n
    /\ pc = "next"
    /\ result = "none"
    /\ lastNext = "none"
    /\ accepted = 0
    /\ conns = [k \in ConnIds |-> NoConn]
    /\ pipe = NoPipe
    /\ tls = [config |-> "uninit", loads |-> 0]
    /\ callers = [c \in CallerIds |-> NoCaller]
    /\ xfer = NoXfer

Init == InitWith(ForwardUrls, MaxConns)

(***************************************************************************)
(* forward called with any Url on a tunnel that yields one connection.     *)
(***************************************************************************)
InitConnect == InitWith(Urls, 1)

Inputs == <<windows, hyper, url, proto>>

Others == <<callers, xfer>>

(***************************************************************************)
(* forward: self.try_next().await                                          *)
(***************************************************************************)
TryNextSome_eager ==
    /\ pc \notin {"returned"}
    /\ source > 0
    /\ source' = source - 1
    /\ accepted' = accepted + 1
    /\ conns' = [conns EXCEPT ![accepted + 1].state = "Accepted"]
    /\ lastNext' = "some"
    /\ pc' = "connect"
    /\ UNCHANGED <<Inputs, Others, result, pipe, tls>>

TryNextSome_batch ==
    /\ pc = "next"
    /\ source > 0
    /\ \E n \in 1..source :
         /\ source' = source - n
         /\ accepted' = accepted + n
         /\ conns' = [k \in ConnIds |->
                         IF k \in (accepted + 1)..(accepted + n)
                         THEN [conns[k] EXCEPT !.state = "Accepted"]
                         ELSE conns[k]]
    /\ lastNext' = "some"
    /\ pc' = "connect"
    /\ UNCHANGED <<Inputs, Others, result, pipe, tls>>

TryNextSome ==
    /\ pc = "next"
    /\ source > 0
    /\ source' = source - 1
    /\ accepted' = accepted + 1
    /\ conns' = [conns EXCEPT ![accepted + 1].state = "Accepted"]
    /\ lastNext' = "some"
    /\ pc' = "connect"
    /\ UNCHANGED <<Inputs, Others, result, pipe, tls>>

TryNextNone_join ==
    /\ pc = "next"
    /\ \A k \in ConnIds : conns[k].task = "none" \/ conns[k].state = "Closed"
    /\ lastNext' = "eof"
    /\ pc' = "returned"
    /\ result' = "Ok"
    /\ UNCHANGED <<Inputs, Others, source, accepted, conns, pipe, tls>>

TryNextNone ==
    /\ pc = "next"
    /\ lastNext' = "eof"
    /\ pc' = "returned"
    /\ result' = "Ok"
    /\ UNCHANGED <<Inputs, Others, source, accepted, conns, pipe, tls>>

TryNextErr ==
    /\ pc = "next"
    /\ lastNext' = "err"
    /\ pc' = "returned"
    /\ result' = "NotConnected"
    /\ UNCHANGED <<Inputs, Others, source, accepted, conns, pipe, tls>>

(***************************************************************************)
(* The Err arm of forward with on_err inlined: c is the connection as      *)
(* connect left it.  Dropping the outbound leg closes it; on_err either    *)
(* hands the inbound connection to serve_gateway_error or drops it.        *)
(***************************************************************************)
DialFail_leak(k, c, e) ==
    LET d == [c EXCEPT !.dial = "err", !.err = e]
    IN /\ conns' = [conns EXCEPT ![k] =
                      IF on_err(proto, hyper) = "responder"
                      THEN [d EXCEPT !.state = "Degraded", !.task = "responder"]
                      ELSE [d EXCEPT !.state = "Closed"]]
       /\ pc' = dial_err_arm.pc
       /\ result' = dial_err_arm.result

DialFail(k, c, e) ==
    LET d == [c EXCEPT !.dial = "err", !.err = e,
                       !.tcp = IF c.tcp = "open" THEN "closed" ELSE c.tcp]
    IN /\ conns' = [conns EXCEPT ![k] =
                      IF on_err(proto, hyper) = "responder"
                      THEN [d EXCEPT !.state = "Degraded", !.task = "responder"]
                      ELSE [d EXCEPT !.state = "Closed"]]
       /\ pc' = dial_err_arm.pc
       /\ result' = dial_err_arm.result

(***************************************************************************)
(* The Ok arm of forward: join_streams spawns the relay task.              *)
(***************************************************************************)
DialOk(k, c) ==
    /\ conns' = [conns EXCEPT ![k] =
                   [c EXCEPT !.dial = "ok", !.state = "Relaying",
                             !.task = "relay", !.relay = "running"]]
    /\ pc' = dial_ok_arm.pc
    /\ result' = dial_ok_arm.result

(***************************************************************************)
(* connect up to its first await.                                          *)
(***************************************************************************)
ConnectStart ==
    /\ pc = "connect"
    /\ LET k == cur
           r == [conns[k] EXCEPT !.dial = "pending", !.resolved = @ + 1]
           c == [r EXCEPT !.dials = @ + 1]
           arm == connect_arm(url, windows)
       IN CASE arm \in {"tcp", "http", "tls"} ->
                 IF connect_port(url) = None
                 THEN DialFail(k, r, InvalidUrl("missing port for tcp forwarding url", url))
                 ELSE /\ conns' = [conns EXCEPT ![k] =
                              [c EXCEPT !.state = "Dialing",
                                        !.target = [kind |-> "tcp", host |-> connect_host(url),
                                                    port |-> unwrap(connect_port(url))]]]
                      /\ pc' = "tcp_connect"
                      /\ UNCHANGED result
            [] arm = "unix" ->
                 /\ conns' = [conns EXCEPT ![k] =
                         [c EXCEPT !.state = "Dialing",
                                   !.target = [kind |-> "unix", addr |-> unix_addr(url)]]]
                 /\ pc' = "unix_connect"
                 /\ UNCHANGED result
            [] arm = "pipe" ->
                 IF pipe_name(url) = <<>>
                 THEN DialFail(k, r, InvalidUrl("missing pipe name in forwarding url", url))
                 ELSE /\ conns' = [conns EXCEPT ![k] =
                              [c EXCEPT !.state = "Dialing",
                                        !.target = [kind |-> "pipe", addr |-> pipe_addr(url)]]]
                      /\ pc' = "pipe_open"
                      /\ UNCHANGED result
            [] OTHER ->
                 DialFail(k, r, InvalidUrl("unrecognized scheme in forwarding url", url))
    /\ pipe' = NoPipe
    /\ UNCHANGED <<Inputs, Others, source, lastNext, accepted, tls>>

(***************************************************************************)
(* tls_config: Lazy::new runs its closure on the first access only; the    *)
(* closure fails iff load_native_certs fails.                              *)
(***************************************************************************)
tls_config_retry_err(t, loadOutcome) ==
    IF t.config \in {"uninit", "err"}
    THEN [config |-> loadOutcome, loads |-> t.loads + 1]
    ELSE t

tls_config(t, loadOutcome) ==
    IF t.config = "uninit"
    THEN [config |-> loadOutcome, loads |-> t.loads + 1]
    ELSE t

(***************************************************************************)
(* connect_tcp(host, port).await completes.  In the https/tls arm the      *)
(* server name check and tls_config() follow without an await.             *)
(***************************************************************************)
TcpConnectOk ==
    /\ pc = "tcp_connect"
    /\ \E loadOutcome \in {"ok", "err"} :
         LET k == cur
             c == [conns[k] EXCEPT !.tcp = "open"]
             t == tls_config(tls, loadOutcome)
         IN IF connect_arm(url, windows) # "tls"
            THEN DialOk(k, c) /\ UNCHANGED tls
            ELSE IF ~server_name_ok(connect_host(url))
            THEN DialFail(k, c, IoErr("InvalidInput", "invalid dns name")) /\ UNCHANGED tls
            ELSE IF t.config = "err"
            THEN DialFail(k, c, IoErr("Other", "")) /\ tls' = t
            ELSE /\ conns' = [conns EXCEPT ![k] = [c EXCEPT !.handshake = TRUE]]
                 /\ pc' = "tls_handshake"
                 /\ tls' = t
                 /\ UNCHANGED result
    /\ UNCHANGED <<Inputs, Others, source, lastNext, accepted, pipe>>

TcpConnectErr ==
    /\ pc = "tcp_connect"
    /\ DialFail(cur, conns[cur], IoErr("ConnectionRefused", "tcp connect"))
    /\ UNCHANGED <<Inputs, Others, source, lastNext, accepted, pipe, tls>>

TlsHandshakeOk ==
    /\ pc = "tls_handshake"
    /\ DialOk(cur, conns[cur])
    /\ UNCHANGED <<Inputs, Others, source, lastNext, accepted, pipe, tls>>

TlsHandshakeErr ==
    /\ pc = "tls_handshake"
    /\ DialFail(cur, conns[cur], IoErr("InvalidData", "tls handshake"))
    /\ UNCHANGED <<Inputs, Others, source, lastNext, accepted, pipe, tls>>

(***************************************************************************)
(* UnixStream::connect(&*addr).await completes.                            *)
(***************************************************************************)
UnixConnectOk ==
    /\ pc = "unix_connect"
    /\ DialOk(cur, conns[cur])
    /\ UNCHANGED <<Inputs, Others, source, lastNext, accepted, pipe, tls>>

UnixConnectErr ==
    /\ pc = "unix_connect"
    /\ DialFail(cur, conns[cur], IoErr("NotFound", "unix connect"))
    /\ UNCHANGED <<Inputs, Others, source, lastNext, accepted, pipe, tls>>

(***************************************************************************)
(* The named pipe loop: ClientOptions::new().open(&addr), then a 50ms      *)
(* sleep after ERROR_PIPE_BUSY.                                            *)
(***************************************************************************)
PipeOpenOk ==
    /\ pc = "pipe_open"
    /\ pipe' = [pipe EXCEPT !.opens = @ + 1]
    /\ DialOk(cur, conns[cur])
    /\ UNCHANGED <<Inputs, Others, source, lastNext, accepted, tls>>

PipeOpenBusy ==
    /\ pc = "pipe_open"
    /\ pipe.busy < MaxBusy
    /\ pipe' = [pipe EXCEPT !.opens = @ + 1, !.busy = @ + 1]
    /\ pc' = pipe_busy_arm
    /\ UNCHANGED <<Inputs, Others, source, result, lastNext, accepted, conns, tls>>

PipeOpenErr ==
    /\ pc = "pipe_open"
    /\ pipe' = [pipe EXCEPT !.opens = @ + 1]
    /\ DialFail(cur, conns[cur], IoErr("NotFound", "pipe open"))
    /\ UNCHANGED <<Inputs, Others, source, lastNext, accepted, tls>>

PipeSleep ==
    /\ pc = "pipe_sleep"
    /\ pipe' = [pipe EXCEPT !.sleeps = @ + 1]
    /\ pc' = "pipe_open"
    /\ UNCHANGED <<Inputs, Others, source, result, lastNext, accepted, conns, tls>>

(***************************************************************************)
(* The task spawned by join_streams: copy_bidirectional returns Ok or Err, *)
(* either is logged, and both streams are dropped.                         *)
(***************************************************************************)
RelayClose_leak(k) ==
    /\ conns[k].task = "relay"
    /\ conns[k].relay = "running"
    /\ \E outcome \in {"ok", "err"} :
         conns' = [conns EXCEPT ![k].relay = outcome]
    /\ UNCHANGED <<Inputs, Others, source, pc, result, lastNext, accepted, pipe, tls>>

RelayClose_propagate(k) ==
    /\ conns[k].task = "relay"
    /\ conns[k].relay = "running"
    /\ \E outcome \in {"ok", "err"} :
         /\ conns' = [conns EXCEPT ![k].relay = outcome, ![k].state = "Closed"]
         /\ pc' = IF outcome = "err" THEN "returned" ELSE pc
         /\ result' = IF outcome = "err" THEN "RelayError" ELSE result
    /\ UNCHANGED <<Inputs, Others, source, lastNext, accepted, pipe, tls>>

RelayClose(k) ==
    /\ conns[k].task = "relay"
    /\ conns[k].relay = "running"
    /\ \E outcome \in {"ok", "err"} :
         conns' = [conns EXCEPT ![k].relay = outcome, ![k].state = "Closed"]
    /\ UNCHANGED <<Inputs, Others, source, pc, result, lastNext, accepted, pipe, tls>>

(***************************************************************************)
(* The task spawned by serve_gateway_error: a request read from the        *)
(* inbound connection is answered by the service_fn; serve_connection      *)
(* returns when the peer closes or, without keep-alive, after the first    *)
(* response, and the connection is dropped.                                *)
(***************************************************************************)
ResponderServe(k) ==
    /\ conns[k].task = "responder"
    /\ conns[k].state = "Degraded"
    /\ conns[k].responses = <<>> \/ http1_keep_alive
    /\ Len(conns[k].responses) < 2
    /\ conns' = [conns EXCEPT ![k].responses = Append(@, gateway_response(conns[k].err))]
    /\ UNCHANGED <<Inputs, Others, source, pc, result, lastNext, accepted, pipe, tls>>

ResponderClose(k) ==
    /\ conns[k].task = "responder"
    /\ conns[k].state = "Degraded"
    /\ conns' = [conns EXCEPT ![k].state = "Closed"]
    /\ UNCHANGED <<Inputs, Others, source, pc, result, lastNext, accepted, pipe, tls>>

Next ==
    \/ TryNextSome
    \/ TryNextNone
    \/ TryNextErr
    \/ ConnectStart
    \/ TcpConnectOk
    \/ TcpConnectErr
    \/ TlsHandshakeOk
    \/ TlsHandshakeErr
    \/ UnixConnectOk
    \/ UnixConnectErr
    \/ PipeOpenOk
    \/ PipeOpenBusy
    \/ PipeOpenErr
    \/ PipeSleep
    \/ \E k \in ConnIds : RelayClose(k)
    \/ \E k \in ConnIds : ResponderServe(k)
    \/ \E k \in ConnIds : ResponderClose(k)

Spec == Init /\ [][Next]_vars

(***************************************************************************)
(* tls_config() called concurrently.  CONFIG is a once_cell Lazy: the      *)
(* first caller to find it empty runs the closure, callers arriving while  *)
(* it runs wait for it, and every caller returns what the cell then holds. *)
(***************************************************************************)
Forward == <<Inputs, pc, result, source, lastNext, accepted, conns, pipe>>

Initialising == \E c \in CallerIds : callers[c].pc = "loading"

Returns(c, t) ==
    callers' = [callers EXCEPT ![c] = [pc |-> "idle", calls |-> @.calls + 1,
                                        seen |-> @.seen \cup {t.config}]]

TlsCall(c) ==
    /\ callers[c].pc = "idle"
    /\ callers[c].calls < MaxCalls
    /\ IF tls.config = "uninit"
       THEN /\ callers' = [callers EXCEPT ![c].pc =
                              IF Initialising THEN "blocked" ELSE "loading"]
            /\ UNCHANGED tls
       ELSE \E loadOutcome \in {"ok", "err"} :
                /\ tls' = tls_config(tls, loadOutcome)
                /\ Returns(c, tls')
    /\ UNCHANGED <<Forward, xfer>>

TlsLoadDone(c) ==
    /\ callers[c].pc = "loading"
    /\ \E loadOutcome \in {"ok", "err"} :
         /\ tls' = tls_config(tls, loadOutcome)
         /\ Returns(c, tls')
    /\ UNCHANGED <<Forward, xfer>>

TlsWake(c) ==
    /\ callers[c].pc = "blocked"
    /\ ~Initialising
    /\ \E loadOutcome \in {"ok", "err"} :
         /\ tls' = tls_config(tls, loadOutcome)
         /\ Returns(c, tls')
    /\ UNCHANGED <<Forward, xfer>>

NextTls ==
    \/ \E c \in CallerIds : TlsCall(c)
    \/ \E c \in CallerIds : TlsLoadDone(c)
    \/ \E c \in CallerIds : TlsWake(c)

InitTls == InitWith({MkUrl("https", Some("h"), None, <<"/">>)}, 0)

SpecTls == InitTls /\ [][NextTls]_vars

SpecConnect == InitConnect /\ [][Next]_vars

(***************************************************************************)
(* What the runtime guarantees by itself: a future that can make progress  *)
(* without I/O is polled, and a timer fires.  Completion of a connect, a   *)
(* handshake, a pipe open, a relay or a responder depends on the peer.     *)
(***************************************************************************)
MaxFairConns == 2

InitFair == InitWith(ForwardUrls, MaxFairConns)

FairSpec == InitFair /\ [][Next]_vars /\ WF_vars(ConnectStart) /\ WF_vars(PipeSleep)

(***************************************************************************)
(* Vocabulary of the properties.                                           *)
(***************************************************************************)
Returned == pc = "returned"

DialDone(k) == conns[k].dial \in {"ok", "err"}

ConnectCalled(k) == conns[k].dial # "none"

TaskRunning(k) ==
    \/ conns[k].task = "relay" /\ conns[k].relay = "running"
    \/ conns[k].task = "responder" /\ conns[k].state = "Degraded"

NoOutboundAttempt(k) ==
    /\ conns[k].target = NoTarget
    /\ conns[k].tcp = "none"
    /\ k = cur => pipe.opens = 0
    /\ ~conns[k].handshake

InvalidDestination(k) ==
    /\ conns[k].dial = "err"
    /\ conns[k].err.kind = "InvalidInput"
    /\ url \in conns[k].err.names

HttpProtos == {"http", "https"}

(***************************************************************************)
(* C1: forward returns only when try_next reports end-of-source, and then  *)
(* with Ok, or when try_next fails, and then with a NotConnected error;    *)
(* no dial or relay outcome makes it return.                               *)
(***************************************************************************)
C1_ReturnsOnlyOnSourceEnd ==
    /\ Returned <=> result # "none"
    /\ Returned => \/ lastNext = "eof" /\ result = "Ok"
                   \/ lastNext = "err" /\ result = "NotConnected"

C1_Witness ==
    /\ Returned
    /\ result = "NotConnected"
    /\ \E k \in ConnIds : conns[k].dial = "err"
    /\ \E k \in ConnIds : conns[k].relay = "err"

(***************************************************************************)
(* C2: a failed dial for the connection retrieved last leaves forward at   *)
(* the top of its loop, where the next connection the source holds can be  *)
(* retrieved, exactly where a successful dial leaves it; forward never     *)
(* returns because of it.                                                  *)
(***************************************************************************)
C2_DialFailureKeepsLooping ==
    \A k \in ConnIds :
        conns[k].dial = "err" =>
            /\ Returned => lastNext \in {"eof", "err"}
            /\ (k = accepted /\ ~Returned) =>
                   /\ pc = "next"
                   /\ result = "none"
                   /\ source > 0 => ENABLED TryNextSome

C2_Witness ==
    /\ conns[1].dial = "err"
    /\ conns[2].dial = "err"
    /\ conns[3].state = "Relaying"

(***************************************************************************)
(* C3: while the dial for a connection is pending, the next connection the *)
(* source holds can be retrieved.                                          *)
(***************************************************************************)
C3_PendingDialDoesNotBlockRetrieval ==
    ((\E k \in ConnIds : conns[k].dial = "pending") /\ source > 0 /\ ~Returned)
        => ENABLED TryNextSome

(***************************************************************************)
(* C4: once the dial of the connection retrieved last has completed, the   *)
(* next connection the source holds can be retrieved however many relay    *)
(* and responder tasks are still running.                                  *)
(***************************************************************************)
C4_RunningTasksDoNotBlockRetrieval ==
    (/\ accepted > 0
     /\ DialDone(accepted)
     /\ \E k \in ConnIds : TaskRunning(k)
     /\ source > 0
     /\ ~Returned)
        => ENABLED TryNextSome

C4_Witness ==
    /\ conns[1].task = "responder" /\ TaskRunning(1)
    /\ conns[2].task = "relay" /\ TaskRunning(2)
    /\ conns[3].state = "Accepted"

SupportedSchemes(win) ==
    {"tcp", "http", "https", "tls"} \cup (IF win THEN {"pipe"} ELSE {"unix"})

C6_UnsupportedSchemeRejected ==
    \A k \in ConnIds :
        ConnectCalled(k) =>
            IF url.scheme \notin SupportedSchemes(windows)
            THEN /\ InvalidDestination(k)
                 /\ conns[k].err.text = "unrecognized scheme in forwarding url"
                 /\ NoOutboundAttempt(k)
            ELSE conns[k].err.text # "unrecognized scheme in forwarding url"

C6_Witness ==
    /\ url.scheme = "unix"
    /\ windows
    /\ conns[1].dial = "err"
    /\ conns[1].state = "Closed"

(***************************************************************************)
(* C7: the tcp, http, https and tls schemes dial the port the Url gives;   *)
(* without one http dials 80, https and tls dial 443, and tcp fails with   *)
(* an InvalidInput error naming the Url before any connect is attempted.   *)
(***************************************************************************)
C7_PortResolution ==
    \A k \in ConnIds :
        (ConnectCalled(k) /\ url.scheme \in {"tcp", "http", "https", "tls"}) =>
            IF url.port # None
            THEN conns[k].target.kind = "tcp" /\ {conns[k].target.port} = url.port
            ELSE CASE url.scheme = "http" ->
                        conns[k].target.kind = "tcp" /\ conns[k].target.port = 80
                   [] url.scheme \in {"https", "tls"} ->
                        conns[k].target.kind = "tcp" /\ conns[k].target.port = 443
                   [] OTHER ->
                        InvalidDestination(k) /\ NoOutboundAttempt(k)

C7_Witness ==
    /\ url.scheme = "http"
    /\ url.port = None
    /\ conns[1].dial = "ok"
    /\ conns[1].tcp = "open"
    /\ conns[1].target.port = 80

(***************************************************************************)
(* C8: on a build with unix sockets a unix Url dials the Url's host        *)
(* followed by its path when it has a host, and its path unchanged when it *)
(* has none.                                                               *)
(***************************************************************************)
C8_UnixPathResolution ==
    \A k \in ConnIds :
        (ConnectCalled(k) /\ url.scheme = "unix" /\ ~windows) =>
            /\ conns[k].target.kind = "unix"
            /\ url.host = None => conns[k].target.addr = url.path
            /\ \A h \in url.host :
                   /\ Len(conns[k].target.addr) = Len(url.path) + 1
                   /\ Head(conns[k].target.addr) = h
                   /\ Tail(conns[k].target.addr) = url.path
            /\ (url.host = Some("h") /\ url.path = <<"/", "p">>) =>
                   conns[k].target.addr = <<"h", "/", "p">>
            /\ (url.host = None /\ url.path = <<"/", "p">>) =>
                   conns[k].target.addr = <<"/", "p">>

C8_Witness ==
    /\ ~windows
    /\ url = MkUrl("unix", Some("h"), None, <<"/", "p">>)
    /\ conns[1].dial = "ok"
    /\ conns[1].target.addr = <<"h", "/", "p">>

(***************************************************************************)
(* C9: on Windows a pipe Url dials \\<host>\pipe\<name>; <host> is "."     *)
(* without a host or with host localhost and the Url's host otherwise;     *)
(* <name> is the path, less one leading slash only when the Url has a      *)
(* host; an empty <name> fails with an InvalidInput error naming the Url   *)
(* and no open is attempted.                                               *)
(***************************************************************************)
C9_ExpectedHost == IF url.host \in {None, Some("localhost")} THEN "." ELSE unwrap(url.host)

C9_ExpectedName ==
    IF url.host # None /\ url.path # <<>> /\ url.path[1] = "/"
    THEN SubSeq(url.path, 2, Len(url.path))
    ELSE url.path

C9_PipeAddressResolution ==
    \A k \in ConnIds :
        (ConnectCalled(k) /\ url.scheme = "pipe" /\ windows) =>
            IF C9_ExpectedName = <<>>
            THEN InvalidDestination(k) /\ NoOutboundAttempt(k)
            ELSE /\ conns[k].target.kind = "pipe"
                 /\ conns[k].target.addr = <<"\\\\", C9_ExpectedHost, "\\pipe\\">> \o C9_ExpectedName

C9_Witness ==
    /\ windows
    /\ url = MkUrl("pipe", None, None, <<"/", "p">>)
    /\ conns[1].dial = "ok"
    /\ conns[1].target.addr = <<"\\\\", ".", "\\pipe\\", "/", "p">>

(***************************************************************************)
(* C10: a pipe dial sleeps once after every busy open and after nothing    *)
(* else: it ends at the first open that is not busy, so after N busy opens *)
(* it has made N+1 opens and N sleeps whether it succeeded or failed.      *)
(***************************************************************************)
C10_PipeBusyRetry ==
    (accepted > 0 /\ conns[cur].target.kind = "pipe") =>
        /\ DialDone(cur) => (pipe.opens = pipe.busy + 1 /\ pipe.sleeps = pipe.busy)
        /\ (conns[cur].dial = "pending" /\ pc = "pipe_open") =>
               (pipe.opens = pipe.busy /\ pipe.sleeps = pipe.busy)
        /\ (conns[cur].dial = "pending" /\ pc = "pipe_sleep") =>
               (pipe.opens = pipe.busy /\ pipe.sleeps = pipe.busy - 1)
        /\ conns[cur].dial = "pending" => pc \in {"pipe_open", "pipe_sleep"}

C10_Witness ==
    /\ conns[1].dial = "ok"
    /\ accepted = 1
    /\ pipe.busy = MaxBusy
    /\ pipe.opens = MaxBusy + 1
    /\ pipe.sleeps = MaxBusy

(***************************************************************************)
(* The relay task of connection 1 in detail.  join_streams has spawned it  *)
(* after a successful dial of tcp://h:8080; each peer sends up to MaxBytes *)
(* bytes and then may close.                                               *)
(***************************************************************************)
RelayUrl == MkUrl("tcp", Some("h"), Some(8080), <<"/">>)

RelayedConn ==
    [NoConn EXCEPT !.state = "Relaying", !.dial = "ok", !.tcp = "open",
                   !.resolved = 1, !.dials = 1,
                   !.target = [kind |-> "tcp", host |-> "h", port |-> 8080],
                   !.task = "relay", !.relay = "running"]

InitRelay ==
    /\ windows = FALSE
    /\ hyper = TRUE
    /\ url = RelayUrl
    /\ proto = "tcp"
    /\ source = 0
    /\ pc = "next"
    /\ result = "none"
    /\ lastNext = "some"
    /\ accepted = 1
    /\ conns = [k \in ConnIds |-> IF k = 1 THEN RelayedConn ELSE NoConn]
    /\ pipe = NoPipe
    /\ tls = [config |-> "uninit", loads |-> 0]
    /\ callers = [c \in CallerIds |-> NoCaller]
    /\ \E n \in 0..MaxBytes, m \in 0..MaxBytes :
         xfer = [NoXfer EXCEPT !.active = TRUE,
                               !.stream = [sd \in Sides |->
                                   IF sd = "left" THEN Stream(Payload(n, 0))
                                                  ELSE Stream(Payload(m, 10))]]

Copying == xfer.active /\ xfer.result.kind = "none"

RelayRest == <<Inputs, callers, pc, result, source, lastNext, accepted, pipe, tls>>

(***************************************************************************)
(* The peer of a stream closes its sending side.                           *)
(***************************************************************************)
PeerClose(sd) ==
    /\ Copying
    /\ ~xfer.stream[sd].fin
    /\ xfer' = [xfer EXCEPT !.stream[sd].fin = TRUE]
    /\ UNCHANGED <<RelayRest, conns>>

(***************************************************************************)
(* CopyBuffer::poll_copy: read into the buffer, a read of 0 bytes being    *)
(* end-of-stream; write the buffer out, counting what was written; return  *)
(* once the reader is done and the buffer is empty.                        *)
(***************************************************************************)
RelayRead(d) ==
    /\ Copying
    /\ xfer.dir[d].state = "Running"
    /\ ~xfer.dir[d].read_done
    /\ xfer.dir[d].buf = <<>>
    /\ IF xfer.stream[src(d)].incoming # <<>>
       THEN \E n \in 1..Len(xfer.stream[src(d)].incoming) :
                xfer' = [xfer EXCEPT !.dir[d].buf = SubSeq(xfer.stream[src(d)].incoming, 1, n),
                                     !.stream[src(d)].incoming = SubSeq(@, n + 1, Len(@))]
       ELSE /\ xfer.stream[src(d)].fin
            /\ xfer' = [xfer EXCEPT !.dir[d].read_done = TRUE, !.dir[d].state = "ShuttingDown"]
    /\ UNCHANGED <<RelayRest, conns>>

RelayWrite(d) ==
    /\ Copying
    /\ xfer.dir[d].state = "Running"
    /\ xfer.dir[d].buf # <<>>
    /\ \E n \in 1..Len(xfer.dir[d].buf) :
         xfer' = [xfer EXCEPT !.dir[d].buf = SubSeq(@, n + 1, Len(@)),
                              !.dir[d].amt = @ + n,
                              !.stream[dst(d)].written = @ \o SubSeq(xfer.dir[d].buf, 1, n)]
    /\ UNCHANGED <<RelayRest, conns>>

(***************************************************************************)
(* transfer_one_direction: after the copy, poll_shutdown of the writer.    *)
(***************************************************************************)
RelayShutdown(d) ==
    /\ Copying
    /\ xfer.dir[d].state = "ShuttingDown"
    /\ xfer' = [xfer EXCEPT !.dir[d].state = "Done", !.stream[dst(d)].shutdown = TRUE]
    /\ UNCHANGED <<RelayRest, conns>>

(***************************************************************************)
(* The task ends: copy_bidirectional returns, the result is logged and     *)
(* left and right are dropped.                                             *)
(***************************************************************************)
Dropped(st) == [sd \in Sides |-> [st[sd] EXCEPT !.open = FALSE]]

RelayFinish_on_first_eof ==
    /\ Copying
    /\ \E d \in Dirs : xfer.dir[d].state = "Done"
    /\ xfer' = [xfer EXCEPT !.result = [kind |-> "ok", l_bytes |-> xfer.dir["a2b"].amt,
                                                        r_bytes |-> xfer.dir["b2a"].amt],
                            !.stream = Dropped(@)]
    /\ conns' = [conns EXCEPT ![1].relay = "ok", ![1].state = "Closed"]
    /\ UNCHANGED RelayRest

RelayFinish_swapped ==
    /\ Copying
    /\ \A d \in Dirs : xfer.dir[d].state = "Done"
    /\ xfer' = [xfer EXCEPT !.result = [kind |-> "ok", l_bytes |-> xfer.dir["b2a"].amt,
                                                        r_bytes |-> xfer.dir["a2b"].amt],
                            !.stream = Dropped(@)]
    /\ conns' = [conns EXCEPT ![1].relay = "ok", ![1].state = "Closed"]
    /\ UNCHANGED RelayRest

RelayFinish ==
    /\ Copying
    /\ \A d \in Dirs : xfer.dir[d].state = "Done"
    /\ xfer' = [xfer EXCEPT !.result = [kind |-> "ok", l_bytes |-> xfer.dir["a2b"].amt,
                                                        r_bytes |-> xfer.dir["b2a"].amt],
                            !.stream = Dropped(@)]
    /\ conns' = [conns EXCEPT ![1].relay = "ok", ![1].state = "Closed"]
    /\ UNCHANGED RelayRest

(***************************************************************************)
(* A read, write or shutdown of a direction that is not Done fails: `?`    *)
(* makes copy_bidirectional return the error at once.                      *)
(***************************************************************************)
RelayIoError(d) ==
    /\ Copying
    /\ xfer.dir[d].state # "Done"
    /\ xfer' = [xfer EXCEPT !.result = [kind |-> "err"], !.stream = Dropped(@)]
    /\ conns' = [conns EXCEPT ![1].relay = "err", ![1].state = "Closed"]
    /\ UNCHANGED RelayRest

NextRelay ==
    \/ \E sd \in Sides : PeerClose(sd)
    \/ \E d \in Dirs : RelayRead(d)
    \/ \E d \in Dirs : RelayWrite(d)
    \/ \E d \in Dirs : RelayShutdown(d)
    \/ RelayFinish
    \/ \E d \in Dirs : RelayIoError(d)

SpecRelay == InitRelay /\ [][NextRelay]_vars

(***************************************************************************)
(* C11: however many dials call tls_config(), concurrently or one after    *)
(* another, the trust store is loaded at most once, every call returns the *)
(* one outcome the cell holds, and a failed load is never attempted again. *)
(***************************************************************************)
C11_TlsConfigComputedOnce ==
    /\ tls.loads <= 1
    /\ tls.loads = 1 <=> tls.config # "uninit"
    /\ \A c \in CallerIds :
           /\ callers[c].seen \subseteq {tls.config} \cap {"ok", "err"}
           /\ callers[c].calls > 0 => callers[c].seen # {}

C11_Witness ==
    /\ tls.config = "err"
    /\ \A c \in CallerIds : callers[c].calls = MaxCalls /\ callers[c].seen = {"err"}

C18_ByteCountsMatchBytesMoved ==
    xfer.active =>
        /\ \A d \in Dirs :
               /\ xfer.dir[d].amt = Len(xfer.stream[dst(d)].written)
               /\ xfer.stream[dst(d)].written \o xfer.dir[d].buf \o xfer.stream[src(d)].incoming
                      = xfer.stream[src(d)].sent
        /\ xfer.result.kind = "ok" =>
               /\ xfer.result.l_bytes = Len(xfer.stream["right"].written)
               /\ xfer.result.r_bytes = Len(xfer.stream["left"].written)
               /\ xfer.stream["right"].written = xfer.stream["left"].sent
               /\ xfer.stream["left"].written = xfer.stream["right"].sent

C18_Witness ==
    /\ xfer.result.kind = "ok"
    /\ xfer.result.l_bytes = MaxBytes
    /\ xfer.result.r_bytes = 1
    /\ xfer.stream["right"].written = xfer.stream["left"].sent
    /\ Len(xfer.stream["left"].written) = 1

(***************************************************************************)
(* C13: the step in which a relay ends with an I/O error changes nothing   *)
(* but that connection: forward stays where it is with no result, and      *)
(* every other connection, the source, the pipe loop and the TLS cell are  *)
(* untouched; afterwards forward still returns only on what try_next       *)
(* reports and still retrieves the next connection.                        *)
(***************************************************************************)
RelayFails(k) == conns[k].relay = "running" /\ conns'[k].relay = "err"

C13_RelayErrorContained ==
    /\ [][\A k \in ConnIds :
              RelayFails(k) =>
                  /\ pc' = pc
                  /\ result' = result
                  /\ UNCHANGED <<source, lastNext, accepted, pipe, tls>>
                  /\ \A j \in ConnIds \ {k} : conns'[j] = conns[j]]_vars
    /\ []((\E k \in ConnIds : conns[k].relay = "err") =>
              /\ result \in {"none", "Ok", "NotConnected"}
              /\ Returned => lastNext \in {"eof", "err"}
              /\ (pc = "next" /\ source > 0) => ENABLED TryNextSome)

C13_Witness ==
    /\ conns[1].relay = "err"
    /\ conns[2].relay = "ok"
    /\ conns[3].state = "Relaying"
    /\ ~Returned

(***************************************************************************)
(* The per-connection state machine.                                       *)
(***************************************************************************)
Rank(st) ==
    CASE st = "None" -> 0
      [] st = "Accepted" -> 1
      [] st = "Dialing" -> 2
      [] st \in {"Relaying", "Degraded"} -> 3
      [] st = "Closed" -> 4

ForwardOnly ==
    [][\A k \in ConnIds :
           /\ Rank(conns'[k].state) >= Rank(conns[k].state)
           /\ conns[k].state = "Relaying" => conns'[k].state \in {"Relaying", "Closed"}
           /\ conns[k].state = "Degraded" => conns'[k].state \in {"Degraded", "Closed"}]_vars

NeverBoth ==
    \A k \in ConnIds :
        /\ conns[k].task = "relay" => (conns[k].dial = "ok" /\ conns[k].responses = <<>>)
        /\ conns[k].task = "responder" => (conns[k].dial = "err" /\ conns[k].relay = "none")
        /\ conns[k].state = "Relaying" <=> (conns[k].task = "relay" /\ conns[k].relay = "running")
        /\ conns[k].state = "Degraded" => conns[k].task = "responder"
        /\ conns[k].relay \in {"ok", "err"} => conns[k].state = "Closed"

EventuallyClosed ==
    \A k \in ConnIds : [](conns[k].state = "Accepted" => <>(conns[k].state = "Closed"))

(***************************************************************************)
(* The I/O a connection waits on completes: a connect, a handshake and a   *)
(* pipe open return, a pipe does not stay busy for ever, the peers of a    *)
(* relay close or fail, the peer of a responder closes.                    *)
(***************************************************************************)
IoCompletes ==
    /\ WF_vars(TcpConnectOk \/ TcpConnectErr)
    /\ WF_vars(TlsHandshakeOk \/ TlsHandshakeErr)
    /\ WF_vars(UnixConnectOk \/ UnixConnectErr)
    /\ WF_vars(PipeOpenOk \/ PipeOpenBusy \/ PipeOpenErr)
    /\ SF_vars(PipeOpenOk \/ PipeOpenErr)
    /\ \A k \in ConnIds : WF_vars(RelayClose(k))
    /\ \A k \in ConnIds : WF_vars(ResponderClose(k))

(***************************************************************************)
(* C14 as stated: every connection moves forward only through Accepted,    *)
(* Dialing, Relaying or Degraded, Closed, is never both relayed and        *)
(* degraded, and once accepted eventually reaches Closed.                  *)
(***************************************************************************)
C14_EveryConnectionCloses ==
    /\ ForwardOnly
    /\ []NeverBoth
    /\ EventuallyClosed

(***************************************************************************)
(* C14 amended: every connection moves forward only, is never both relayed *)
(* and degraded, and once accepted always has its dial started; it reaches *)
(* Closed if the I/O it waits on completes.                                *)
(***************************************************************************)
C14_ClosesIfIoCompletes ==
    /\ ForwardOnly
    /\ []NeverBoth
    /\ \A k \in ConnIds : [](conns[k].state = "Accepted" => <>ConnectCalled(k))
    /\ IoCompletes => EventuallyClosed

C14_Witness ==
    /\ conns[1].state = "Closed" /\ conns[1].task = "responder" /\ conns[1].responses # <<>>
    /\ conns[2].state = "Closed" /\ conns[2].task = "relay"
    /\ Returned

(***************************************************************************)
(* C15: every inbound connection has its destination resolved exactly once *)
(* and is dialed at most once; after a dial fails it is never dialed       *)
(* again.  The only repetition is the busy retry of a named pipe, inside   *)
(* one dial.                                                               *)
(***************************************************************************)
C15_OneResolutionOneDial ==
    /\ [](\A k \in ConnIds :
            /\ conns[k].resolved = (IF ConnectCalled(k) THEN 1 ELSE 0)
            /\ conns[k].dials <= conns[k].resolved
            /\ conns[k].state \in {"Dialing", "Relaying"} => conns[k].dials = 1
            /\ conns[k].dials = 0 =>
                   (conns[k].target = NoTarget /\ conns[k].tcp = "none" /\ ~conns[k].handshake)
            /\ (conns[k].dial = "err" /\ k = cur) => pc \in {"next", "returned"})
    /\ [][\A k \in ConnIds :
              DialDone(k) =>
                  /\ conns'[k].dial = conns[k].dial
                  /\ conns'[k].target = conns[k].target
                  /\ conns'[k].resolved = conns[k].resolved
                  /\ conns'[k].dials = conns[k].dials
                  /\ conns'[k].handshake = conns[k].handshake
                  /\ k = cur => pipe' = pipe]_vars

C15_Witness ==
    /\ conns[1].dial = "err" /\ conns[1].dials = 1 /\ conns[1].resolved = 1
    /\ conns[2].dial = "err" /\ conns[2].dials = 1
    /\ conns[3].state = "Dialing" /\ conns[3].dials = 1
    /\ pipe.busy = 1 /\ pipe.sleeps = 1 /\ pc = "pipe_open"

(***************************************************************************)
(* A connection forward has retrieved and not yet handed to join_streams   *)
(* or on_err.                                                              *)
(***************************************************************************)
Pending(k) == conns[k].state \in {"Accepted", "Dialing"}

Retrieved(k) == conns[k].state # "None"

(***************************************************************************)
(* C16: at most one retrieved connection is not yet handed to a relay or   *)
(* to failure handling, and none is when forward retrieves the next one.   *)
(***************************************************************************)
C16_AtMostOnePending ==
    /\ [](Cardinality({k \in ConnIds : Pending(k)}) <= 1)
    /\ [](\A k \in ConnIds :
            Pending(k) => (k = cur /\ pc \notin {"next", "returned"}))
    /\ []((ENABLED TryNextSome) => \A k \in ConnIds : ~Pending(k))
    /\ [][accepted' # accepted => \A k \in ConnIds : ~Pending(k)]_vars

C16_Witness ==
    /\ Pending(3)
    /\ TaskRunning(1)
    /\ TaskRunning(2)

(***************************************************************************)
(* C17: connections are retrieved, and their dials started, in the order   *)
(* the source yields them, one at a time: for i < j, connection i is       *)
(* retrieved and connect is called for it before j is retrieved.           *)
(***************************************************************************)
C17_InOrderOneAtATime ==
    /\ [](\A k \in ConnIds : Retrieved(k) <=> k <= accepted)
    /\ [](\A i, j \in ConnIds :
            (i < j /\ Retrieved(j)) => (Retrieved(i) /\ ConnectCalled(i)))
    /\ [][/\ accepted' \in {accepted, accepted + 1}
          /\ accepted' = accepted + 1 =>
                /\ source' = source - 1
                /\ ~Retrieved(accepted + 1)
                /\ conns'[accepted + 1].state = "Accepted"
                /\ \A i \in 1..accepted : ConnectCalled(i)
          /\ \A k \in ConnIds :
                (~ConnectCalled(k) /\ ConnectCalled(k)') => k = accepted]_vars

C17_Witness ==
    /\ accepted = 3
    /\ conns[3].state = "Accepted"
    /\ DialDone(1)
    /\ DialDone(2)

(***************************************************************************)
(* C19: an https or tls dial runs TCP connect, server-name check, shared   *)
(* TLS configuration lookup, TLS handshake, in that order.  The handshake  *)
(* is never attempted when the TCP connect failed, a failure at any step   *)
(* after the TCP connect (a cached configuration failure included) fails   *)
(* the dial, and no outbound connection stays open after a failed dial.    *)
(***************************************************************************)
TlsArm == connect_arm(url, windows) = "tls"

C19_TlsDialOrder ==
    /\ [](\A k \in ConnIds :
            /\ conns[k].handshake =>
                  /\ TlsArm
                  /\ conns[k].tcp \in {"open", "closed"}
                  /\ server_name_ok(connect_host(url))
                  /\ tls.config = "ok"
            /\ conns[k].dial = "err" => conns[k].tcp # "open"
            /\ (TlsArm /\ conns[k].dial = "ok") =>
                  (conns[k].handshake /\ conns[k].tcp = "open")
            /\ (TlsArm /\ conns[k].dial = "err") =>
                  /\ conns[k].err.kind = "ConnectionRefused" =>
                        (conns[k].tcp = "none" /\ ~conns[k].handshake)
                  /\ conns[k].err.kind = "InvalidInput" =>
                        /\ conns[k].tcp = "closed" /\ ~conns[k].handshake
                        /\ ~server_name_ok(connect_host(url))
                  /\ conns[k].err.kind = "Other" =>
                        /\ conns[k].tcp = "closed" /\ ~conns[k].handshake
                        /\ tls.config = "err"
                  /\ conns[k].err.kind = "InvalidData" =>
                        (conns[k].tcp = "closed" /\ conns[k].handshake))
    /\ [](TlsArm /\ tls.config = "err" => \A k \in ConnIds : ~conns[k].handshake)
    /\ [][tls' # tls =>
              /\ TlsArm
              /\ pc = "tcp_connect"
              /\ conns'[cur].tcp \in {"open", "closed"}
              /\ server_name_ok(connect_host(url))]_vars
    /\ [][\A k \in ConnIds :
              (~conns[k].handshake /\ conns'[k].handshake) =>
                  (k = cur /\ pc = "tcp_connect" /\ pc' = "tls_handshake"
                     /\ tls'.config = "ok")]_vars

C19_Witness ==
    /\ TlsArm
    /\ conns[1].dial = "err" /\ conns[1].err.kind = "Other" /\ conns[1].tcp = "closed"
    /\ conns[2].dial = "err" /\ conns[2].err.kind = "Other" /\ conns[2].tcp = "closed"
    /\ tls.loads = 1

(***************************************************************************)
(* C20: the relay and responder tasks are detached from forward.  forward  *)
(* can return whatever its tasks are doing, its return changes no          *)
(* connection, and after it has returned every task still running can      *)
(* still make its steps.                                                   *)
(***************************************************************************)
C20_TasksDetached ==
    /\ [](pc = "next" => (ENABLED TryNextNone /\ ENABLED TryNextErr))
    /\ [][(~Returned /\ Returned') => conns' = conns]_vars
    /\ [](\A k \in ConnIds :
            /\ (conns[k].task = "relay" /\ conns[k].relay = "running") =>
                  ENABLED RelayClose(k)
            /\ (conns[k].task = "responder" /\ conns[k].state = "Degraded") =>
                  /\ ENABLED ResponderClose(k)
                  /\ conns[k].responses = <<>> => ENABLED ResponderServe(k))
    /\ [][Returned => UNCHANGED <<pc, result, source, lastNext, accepted, pipe, tls>>]_vars

C20_Witness ==
    /\ Returned
    /\ lastNext = "err"
    /\ conns[1].task = "responder" /\ conns[1].state = "Degraded"
    /\ conns[2].task = "relay" /\ conns[2].relay = "running"

====
